---- MODULE Spec2Model ----
(***************************************************************************)
(* carbonawareML: the energy sampler (utils/energy_monitor.py), the        *)
(* carbon-intensity cache and footprint calculator                         *)
(* (utils/carbon_calculator.py), the upstream provider                     *)
(* (data_pipeline/carbon_intensity.py) and the session controller          *)
(* (CarbonAwareTrainingSession).                                           *)
(*                                                                         *)
(* The specifications share the variables:                                 *)
(*   SpecMonitor    one EnergyMonitor driven by a foreground caller, with  *)
(*                  its _monitor_loop threads interleaved step by step     *)
(*                  (SpecMonitorFair: with a fair thread scheduler;        *)
(*                  SpecTick: with failing ticks; SpecReader: read while   *)
(*                  it runs);                                              *)
(*   SpecTdp        the TDP estimate made at its construction;             *)
(*   SpecCache      the CarbonCalculator objects of the sessions of one    *)
(*                  process, asked for the intensity;                      *)
(*   SpecFootprint  one CarbonCalculator asked for footprints;             *)
(*   SpecBudget     the CarbonCalculators asked for budget statuses;       *)
(*   SpecSession    one CarbonAwareTrainingSession around a workload;      *)
(*   SpecTrain      train.main from its with-statement to its report;      *)
(*   SpecScheduler  scheduler.schedule_training;                           *)
(*   SpecOptimizer  optimizer.optimize_training_config.                    *)
(* Python floats are modelled as exact rationals [num, den], den > 0.      *)
(***************************************************************************)
EXTENDS Integers, Sequences, FiniteSets, TLC

\* ------------------------------------------------------------- bounds
MaxThreads == 2        \* loop threads alive at the same time
MaxSamples == 2        \* measurements taken between two starts
MonitorHorizon == 1    \* hours the clock runs in SpecMonitor / SpecSession
MaxCores == 16         \* logical cores of the machines in SpecTdp
MaxBatch == 66         \* largest configured batch_size in SpecOptimizer

\* ------------------------------------------------------------- values
None == -1                          \* Python None where a number is expected
NoThread == 0                       \* monitor_thread = None
EmptyDict == [k \in {} |-> 0]       \* Python {}

RECURSIVE Gcd(_, _)
Gcd(a, b) == IF b = 0 THEN a ELSE Gcd(b, a % b)
Abs(a) == IF a < 0 THEN 0 - a ELSE a

\* rationals in lowest terms, so that equal numbers are equal records
Rat(n, d) == LET g == Gcd(Abs(n), d) IN [num |-> n \div g, den |-> d \div g]
RatMul(a, b) ==
  LET g1 == Gcd(Abs(a.num), b.den)
      g2 == Gcd(Abs(b.num), a.den)
  IN Rat((a.num \div g1) * (b.num \div g2), (a.den \div g2) * (b.den \div g1))
RatMulInt(a, k) == RatMul(a, [num |-> k, den |-> 1])
RatDivInt(a, k) == RatMul(a, [num |-> 1, den |-> k])
RatEq(a, b) == a.num * b.den = b.num * a.den
RatLess(a, b) == a.num * b.den < b.num * a.den
RatLeqStrict(a, b) == a.num * b.den < b.num * a.den
RatLeq(a, b) == a.num * b.den <= b.num * a.den
RatZero == Rat(0, 1)
RatSub(a, b) == Rat(a.num * b.den - b.num * a.den, a.den * b.den)
\* a / b for b # 0
RatDiv(a, b) ==
  IF b.num > 0 THEN Rat(a.num * b.den, a.den * b.num)
  ELSE Rat(0 - a.num * b.den, a.den * (0 - b.num))

ThreadIds == 1 .. MaxThreads

VARIABLES
  monitoring,       \* EnergyMonitor.monitoring
  measurements,     \* EnergyMonitor.measurements
  monitor_thread,   \* EnergyMonitor.monitor_thread (a thread id, or NoThread)
  gpu_available,    \* EnergyMonitor.gpu_available, fixed at construction
  loop,             \* position of each _monitor_loop thread
  pending,          \* the measurement a loop thread built and has not appended yet
  tick_error,       \* what failed in each loop thread's latest tick ("none" if nothing)
  fg,               \* position of the foreground caller ("idle", or inside a call)
  frame,            \* local variables of the foreground call in progress
  now,              \* time.time(), in seconds
  last,             \* outcome of the most recent foreground call
  region,           \* config['carbon_api']['region'], as load_config() reads it
  created,          \* the session objects constructed so far
  carbon_intensity_cache,  \* CarbonCalculator.carbon_intensity_cache, per cache object
  log,              \* the calls of get_carbon_intensity_cached made so far
  spc,              \* position of the session under study (session 1) in its with-block
  exc,              \* the exception travelling to the caller of the with-block
  footprint,        \* CarbonAwareTrainingSession.footprint, per session object
  tracker_summary,  \* EnergyTracker.summary of the session under study
  carbon_budget_kg  \* CarbonAwareTrainingSession.carbon_budget_kg of that session

monitorVars ==
  <<monitoring, measurements, monitor_thread, gpu_available, loop, pending, tick_error>>
calcVars == <<region, created, carbon_intensity_cache, log>>
sessVars == <<spc, exc, footprint, tracker_summary, carbon_budget_kg>>
vars == <<monitoring, measurements, monitor_thread, gpu_available, loop, pending,
          tick_error, fg, frame, now, last, region, created, carbon_intensity_cache, log,
          spc, exc, footprint, tracker_summary, carbon_budget_kg>>

\* ------------------------------------------------------------- EnergyMonitor
cpu_tdp == 65
CpuPercents == {0, 100}
GpuWatts == {250}

NoMeasurement == [timestamp |-> 0, cpu_power_watts |-> 0, gpu_power_watts |-> 0,
                  total_power_watts |-> 0]

\* what can fail in one tick: nothing, the CPU read, the GPU read, or
\* anything else in the body of the loop's try
TickErrors == {"none", "cpu", "gpu", "loop"}

\* _get_cpu_power: cpu_tdp * (cpu_percent / 100); 0 when the read raises
get_cpu_power(cpu_percent, failed) ==
  IF failed THEN 0 ELSE (cpu_tdp * cpu_percent) \div 100

\* _get_gpu_power: 0 without the GPU capability, else the reading; 0 when
\* the read raises
get_gpu_power(reading, failed) ==
  IF ~gpu_available \/ failed THEN 0 ELSE reading

EnergyMeasurement(ts, cpu, gpu) ==
  [timestamp |-> ts, cpu_power_watts |-> cpu, gpu_power_watts |-> gpu,
   total_power_watts |-> cpu + gpu]

RECURSIVE SumOf(_, _)
SumOf(ms, f) == IF ms = <<>> THEN 0 ELSE Head(ms)[f] + SumOf(Tail(ms), f)

RECURSIVE MaxOf(_, _)
MaxOf(ms, f) ==
  IF Len(ms) = 1 THEN Head(ms)[f]
  ELSE LET r == MaxOf(Tail(ms), f) IN IF Head(ms)[f] >= r THEN Head(ms)[f] ELSE r

\* `if not self.measurements: return {}`
ZeroSummary == [measurements_count |-> 0, duration_seconds |-> 0]
EmptySummary == EmptyDict

\* self.measurements[-1].timestamp - self.measurements[0].timestamp
DurationToLast(ms) == ms[Len(ms)].timestamp
Duration(ms) == ms[Len(ms)].timestamp - ms[1].timestamp

\* sum(m.<f> for m in self.measurements) / len(self.measurements)
MeanOfLast(ms, f) == Rat(ms[Len(ms)][f], 1)
Mean(ms, f) == Rat(SumOf(ms, f), Len(ms))

\* the rest of get_summary: the energies from the averages and the duration
\* already computed, the peaks and the count from the buffer as it is then
Summary(duration_seconds, avg_cpu_power, avg_gpu_power, avg_total_power, ms) ==
  LET duration_hours == Rat(duration_seconds, 3600)
  IN [duration_seconds |-> duration_seconds,
      duration_hours |-> duration_hours,
      measurements_count |-> Len(ms),
      energy |-> [total_kwh |-> RatDivInt(RatMul(avg_total_power, duration_hours), 1000),
                  cpu_kwh |-> RatDivInt(RatMul(avg_cpu_power, duration_hours), 1000),
                  gpu_kwh |-> RatDivInt(RatMul(avg_gpu_power, duration_hours), 1000)],
      power |-> [avg_total_watts |-> avg_total_power,
                 avg_cpu_watts |-> avg_cpu_power,
                 avg_gpu_watts |-> avg_gpu_power,
                 peak_total_watts |-> MaxOf(ms, "total_power_watts"),
                 peak_cpu_watts |-> MaxOf(ms, "cpu_power_watts"),
                 peak_gpu_watts |-> MaxOf(ms, "gpu_power_watts")]]

\* get_summary on a buffer that no thread appends to during the call
\* the only test get_summary makes before it aggregates: `if not
\* self.measurements`; the monitoring flag is not consulted
NothingToSummariseWhileRunning(ms) == ms = <<>> \/ monitoring
NothingToSummarise(ms) == ms = <<>>

get_summary(ms) ==
  IF NothingToSummarise(ms) THEN EmptySummary
  ELSE Summary(Duration(ms), Mean(ms, "cpu_power_watts"), Mean(ms, "gpu_power_watts"),
               Mean(ms, "total_power_watts"), ms)

Alive(t) == loop[t] # "dead"
InFlight == Cardinality({t \in ThreadIds : loop[t] = "append"})

\* where the loop's `except Exception` handler leaves the thread: it logs,
\* sleeps for the sampling interval and tests the flag again
AfterLoopErrorStops == "dead"
AfterLoopError == "sleep"

\* One tick of _monitor_loop by thread t, from the evaluation of
\* `while self.monitoring:` to the construction of the EnergyMeasurement:
\* the thread leaves the loop when the flag is down, else it reads the clock
\* and the sensors (cpu_percent blocks for its 0.1 s window before the append).
\* A failing sensor read is caught in that read; any other exception ends the
\* tick in the loop's handler, before the append.
LoopContinuesAlways == TRUE
LoopContinues == monitoring

LoopSample(t, percents, errs) ==
  /\ loop[t] = "sleep"
  /\ IF LoopContinues
     THEN /\ Len(measurements) + InFlight < MaxSamples
          /\ \E e \in errs :
               /\ e = "gpu" => gpu_available
               /\ tick_error' = [tick_error EXCEPT ![t] = e]
               /\ IF e = "loop"
                  THEN /\ loop' = [loop EXCEPT ![t] = AfterLoopError]
                       /\ UNCHANGED pending
                  ELSE /\ \E cpu_percent \in percents, reading \in GpuWatts :
                            pending' = [pending EXCEPT ![t] =
                              EnergyMeasurement(now, get_cpu_power(cpu_percent, e = "cpu"),
                                                get_gpu_power(reading, e = "gpu"))]
                       /\ loop' = [loop EXCEPT ![t] = "append"]
     ELSE /\ loop' = [loop EXCEPT ![t] = "dead"]
          /\ tick_error' = [tick_error EXCEPT ![t] = "none"]
          /\ UNCHANGED pending
  /\ UNCHANGED <<monitoring, measurements, monitor_thread, gpu_available>>

\* self.measurements.append(measurement), then time.sleep(sampling_interval)
LoopAppend(t) ==
  /\ loop[t] = "append"
  /\ measurements' = Append(measurements, pending[t])
  /\ pending' = [pending EXCEPT ![t] = NoMeasurement]
  /\ loop' = [loop EXCEPT ![t] = "sleep"]
  /\ UNCHANGED <<monitoring, monitor_thread, gpu_available, tick_error>>

\* the guard of start_monitoring: `if self.monitoring: ... return`
StartRejectedNever == FALSE
StartRejected == monitoring

start_monitoring ==
  IF StartRejected
  THEN UNCHANGED monitorVars
  ELSE /\ \E t \in ThreadIds : ~Alive(t)
       /\ LET t == CHOOSE i \in ThreadIds : ~Alive(i) IN
            /\ monitoring' = TRUE
            /\ measurements' = <<>>
            /\ monitor_thread' = t
            /\ loop' = [loop EXCEPT ![t] = "sleep"]
       /\ UNCHANGED <<gpu_available, pending, tick_error>>

\* Thread.join(timeout=5.0): returns when the thread has ended, or when the
\* timeout has expired (the thread may be blocked longer than that in
\* time.sleep(sampling_interval) or in a sensor read)
JoinNoTimeout(t, timed_out) == ~Alive(t)
join(t, timed_out) == ~Alive(t) \/ timed_out

\* self.monitor_thread.join(timeout=5.0) can return now
JoinReturns == \E timed_out \in BOOLEAN : join(monitor_thread, timed_out)

\* what stop_monitoring logs before it returns: a warning when the monitor
\* was not running, else "Energy monitoring stopped" at level info; the
\* result of the join is not inspected (no is_alive() after it)
stop_log(ran, joined) == IF ran THEN "info" ELSE "warning"

\* stop_monitoring up to the join
stop_begin ==
  /\ monitoring
  /\ monitoring' = FALSE
  /\ UNCHANGED <<measurements, monitor_thread, gpu_available, loop, pending, tick_error>>

\* ------------------------------------------------------------- upstream provider
Ret(v) == [raised |-> FALSE, value |-> v]
Raised == [raised |-> TRUE, value |-> None]

\* What the outside world answers to one call of get_carbon_intensity():
\* the provider named by the configuration file, whether requests.get raises
\* (no network, connection reset: the call has no timeout and no handler), the
\* HTTP status and body, and for the mock provider the hour and the random draw.
UpstreamCases ==
  { [provider |-> "electricitymap", raises |-> TRUE, status |-> 0, carbonIntensity |-> None,
     hour |-> 0, rnd |-> 0],
    [provider |-> "electricitymap", raises |-> FALSE, status |-> 200, carbonIntensity |-> 250,
     hour |-> 0, rnd |-> 0],
    [provider |-> "electricitymap", raises |-> FALSE, status |-> 503, carbonIntensity |-> None,
     hour |-> 0, rnd |-> 0],
    [provider |-> "mock", raises |-> FALSE, status |-> 0, carbonIntensity |-> None,
     hour |-> 3, rnd |-> 0],
    [provider |-> "unknown", raises |-> FALSE, status |-> 0, carbonIntensity |-> None,
     hour |-> 0, rnd |-> 0] }

get_carbon_intensity(c) ==
  IF c.provider = "electricitymap"
  THEN IF c.raises THEN Raised
       ELSE IF c.status = 200 THEN Ret(c.carbonIntensity)
       ELSE Ret(None)
  ELSE IF c.provider = "mock"
  THEN IF 0 <= c.hour /\ c.hour <= 6 THEN Ret(150 + c.rnd)
       ELSE IF (7 <= c.hour /\ c.hour <= 9) \/ (18 <= c.hour /\ c.hour <= 22)
       THEN Ret(350 + c.rnd)
       ELSE Ret(250 + c.rnd)
  ELSE Ret(None)

\* ------------------------------------------------------------- CarbonCalculator
Sessions == {1, 2}
Regions == {"FR", "ZZ"}
NoneObj == [none |-> TRUE]          \* Python None where an object is expected

cache_duration == 300

\* The cache object a session's calculator reads and writes: __init__ gives
\* every CarbonCalculator a dict of its own, and every session a calculator
\* of its own.
CacheOwnerShared(s) == 1
CacheOwner(s) == s

regional_averages ==
  ("IN-SO" :> 708) @@ ("US-CA" :> 234) @@ ("DE" :> 401) @@ ("FR" :> 79) @@
  ("GB" :> 233) @@ ("CN" :> 681) @@ ("JP" :> 475) @@ ("default" :> 475)

electricity_costs ==
  ("IN-SO" :> Rat(8, 100)) @@ ("US-CA" :> Rat(20, 100)) @@ ("DE" :> Rat(30, 100)) @@
  ("FR" :> Rat(18, 100)) @@ ("GB" :> Rat(25, 100)) @@ ("CN" :> Rat(8, 100)) @@
  ("JP" :> Rat(26, 100)) @@ ("default" :> Rat(15, 100))

\* dict.get(key, dict['default'])
GetDefault(table, key) == table["default"]
GetOr(table, key) == IF key \in DOMAIN table THEN table[key] ELSE table["default"]

\* the cache test of get_carbon_intensity_cached
CacheFreshInclusive(cache, t) ==
  region \in DOMAIN cache /\ t - cache[region].timestamp <= cache_duration
CacheFreshForever(cache, t) == region \in DOMAIN cache
CacheFresh(cache, t) ==
  region \in DOMAIN cache /\ t - cache[region].timestamp < cache_duration

\* what get_carbon_intensity_cached does with the provider's answer on a miss
AfterFetchPoisoning(cache, t, up) ==
  IF up.raised
  THEN [ret |-> up, cache |-> cache]
  ELSE [ret |-> up,
        cache |-> (region :> [value |-> up.value, timestamp |-> t]) @@ cache]
AfterFetch(cache, t, up) ==
  IF up.raised
  THEN [ret |-> up, cache |-> cache]
  ELSE IF up.value # None
  THEN [ret |-> up,
        cache |-> (region :> [value |-> up.value, timestamp |-> t]) @@ cache]
  ELSE [ret |-> up, cache |-> cache]

\* get_carbon_intensity_cached at time t on a calculator whose cache is
\* `cache`, `up` being what get_carbon_intensity() answers if it is called
get_carbon_intensity_cached(cache, t, up) ==
  IF CacheFresh(cache, t)
  THEN [ret |-> Ret(cache[region].value), cache |-> cache, fetched |-> FALSE,
        entry_ts |-> cache[region].timestamp]
  ELSE LET r == AfterFetch(cache, t, up)
       IN [ret |-> r.ret, cache |-> r.cache, fetched |-> TRUE, entry_ts |-> None]

CarbonFootprint(grams, kg, kwh, ci, hours, cost) ==
  [total_co2_grams |-> grams, total_co2_kg |-> kg, energy_kwh |-> kwh,
   avg_carbon_intensity |-> ci, duration_hours |-> hours, cost_estimate_usd |-> cost]

\* the intensity calculate_footprint uses: the override, else the cached or
\* fetched value, else the regional average, else the global default
ResolveNoRegion(override, looked) ==
  IF override # None THEN override
  ELSE IF looked.value # None THEN looked.value
  ELSE regional_averages["default"]
Resolve(override, looked) ==
  IF override # None THEN override
  ELSE IF looked.value # None THEN looked.value
  ELSE GetOr(regional_averages, region)

\* a fetch that raises inside calculate_footprint: nothing catches it
LookupRaises(looked) == looked.raised

\* calculate_footprint(energy_summary, carbon_intensity = override); `lookup`
\* is the outcome of get_carbon_intensity_cached(), used only when the code
\* calls it. consulted: whether it was called; raised: whether the call left
\* by an exception instead of returning.
calculate_footprint(energy_summary, override, lookup) ==
  IF DOMAIN energy_summary = {}
  THEN [raised |-> FALSE, consulted |-> FALSE,
        footprint |-> CarbonFootprint(RatZero, RatZero, RatZero, 0, RatZero, NoneObj)]
  ELSE LET energy_kwh == IF "energy" \in DOMAIN energy_summary
                            /\ "total_kwh" \in DOMAIN energy_summary.energy
                         THEN energy_summary.energy.total_kwh ELSE RatZero
           duration_hours == IF "duration_hours" \in DOMAIN energy_summary
                             THEN energy_summary.duration_hours ELSE RatZero
       IN IF RatLeq(energy_kwh, RatZero)
          THEN [raised |-> FALSE, consulted |-> FALSE,
                footprint |-> CarbonFootprint(RatZero, RatZero, RatZero, 0, duration_hours,
                                              NoneObj)]
          ELSE LET consulted == override = None
                   looked == IF consulted THEN lookup.ret ELSE Ret(None)
               IN IF consulted /\ LookupRaises(looked)
                  THEN [raised |-> TRUE, consulted |-> TRUE, footprint |-> NoneObj]
                  ELSE LET carbon_intensity == Resolve(override, looked)
                           total_co2_grams == RatMulInt(energy_kwh, carbon_intensity)
                           cost_per_kwh == GetOr(electricity_costs, region)
                       IN [raised |-> FALSE, consulted |-> consulted,
                           footprint |->
                             CarbonFootprint(total_co2_grams,
                                             RatDivInt(total_co2_grams, 1000),
                                             energy_kwh, carbon_intensity, duration_hours,
                                             RatMul(energy_kwh, cost_per_kwh))]

\* get_carbon_budget_status(co2_kg, daily_budget_kg): the division by the
\* budget has no guard, so a budget of zero leaves by ZeroDivisionError
get_carbon_budget_status(co2_kg, daily_budget_kg) ==
  LET budget == IF daily_budget_kg = NoneObj THEN Rat(2300, 365) ELSE daily_budget_kg
  IN IF budget.num = 0
     THEN [raised |-> TRUE, status |-> NoneObj]
     ELSE LET left == RatSub(budget, co2_kg)
          IN [raised |-> FALSE,
              status |-> [daily_budget_kg |-> budget,
                          used_kg |-> co2_kg,
                          remaining_kg |-> IF left.num > 0 THEN left ELSE RatZero,
                          percentage_used |-> RatMulInt(RatDiv(co2_kg, budget), 100),
                          budget_exceeded |-> RatLess(budget, co2_kg)]]

\* ------------------------------------------------------------- bounds of the cache runs
MaxCalls == 3          \* calls of get_carbon_intensity_cached in one run
CacheHorizon == 300    \* seconds the clock runs in SpecCache

Overrides == {None, 400}
M(ts, cpu) == EnergyMeasurement(ts, cpu, 0)
\* the buffers summarised for calculate_footprint: empty, one sample, an hour
\* at 65 W and at 100 W (0.1 kWh), an hour at 0 W, and an hour at 65 W during
\* which the wall clock was set back
SampleBuffers ==
  { <<>>, << M(0, 65) >>, << M(0, 65), M(3600, 65) >>, << M(0, 100), M(3600, 100) >>,
    << M(0, 0), M(3600, 0) >>, << M(3600, 65), M(0, 65) >> }

\* the lookup a call of session s's calculator makes now
Electricitymap == {c \in UpstreamCases : c.provider = "electricitymap"}

Lookup(s, c) ==
  get_carbon_intensity_cached(carbon_intensity_cache[CacheOwner(s)], now,
                              get_carbon_intensity(c))

\* its effect on the cache, and its record in the log
Looked(s, r, c) ==
  /\ carbon_intensity_cache' = [carbon_intensity_cache EXCEPT ![CacheOwner(s)] = r.cache]
  /\ log' = Append(log, [s |-> s, t |-> now, fetched |-> r.fetched,
                         up |-> IF r.fetched THEN get_carbon_intensity(c) ELSE Ret(None),
                         ret |-> r.ret, entry_ts |-> r.entry_ts])

\* CarbonAwareTrainingSession.__init__ (with its CarbonCalculator.__init__)
NewSession(s, budget, regions) ==
  /\ ~created[s]
  /\ created' = [created EXCEPT ![s] = TRUE]
  /\ carbon_intensity_cache' = [carbon_intensity_cache EXCEPT ![s] = EmptyDict]
  /\ footprint' = [footprint EXCEPT ![s] = NoneObj]
  /\ IF region = "unread" THEN region' \in regions ELSE UNCHANGED region
  /\ last' = [op |-> "init", s |-> s]
  /\ carbon_budget_kg' = IF s = 1 THEN budget ELSE carbon_budget_kg
  /\ UNCHANGED <<monitorVars, fg, frame, now, log, spc, exc, tracker_summary>>

\* session s's calculator is asked for the intensity
GetCached(s) ==
  /\ created[s]
  /\ Len(log) < MaxCalls
  /\ \E c \in UpstreamCases : \E r \in {Lookup(s, c)} : Looked(s, r, c)
  /\ last' = [op |-> "get_carbon_intensity_cached", s |-> s]
  /\ UNCHANGED <<monitorVars, fg, frame, now, region, created, sessVars>>

\* session s's calculator is asked for a footprint
Calculate(s) ==
  /\ created[s]
  /\ Len(log) < MaxCalls
  /\ \E buf \in SampleBuffers, override \in Overrides, c \in UpstreamCases :
       \E summary \in {get_summary(buf)}, r \in {Lookup(s, c)} :
         \E out \in {calculate_footprint(summary, override, r)} :
           /\ IF out.consulted THEN Looked(s, r, c)
              ELSE UNCHANGED <<carbon_intensity_cache, log>>
           /\ last' = [op |-> "calculate_footprint", s |-> s, summary |-> summary,
                       override |-> override, consulted |-> out.consulted,
                       raised |-> out.raised, footprint |-> out.footprint]
  /\ UNCHANGED <<monitorVars, fg, frame, now, region, created, sessVars>>

\* session s's calculator is asked for the status of a daily budget
MaxKg == 6             \* largest amount of CO2, in kg, in the budget runs
UsedKgs == {Rat(k, 1) : k \in 0 .. MaxKg}
DailyBudgets == {NoneObj} \cup {Rat(k, 1) : k \in 0 .. MaxKg - 1}

BudgetStatus(s) ==
  /\ created[s]
  /\ \E co2_kg \in UsedKgs, daily_budget_kg \in DailyBudgets :
       \E out \in {get_carbon_budget_status(co2_kg, daily_budget_kg)} :
         last' = [op |-> "get_carbon_budget_status", s |-> s, co2_kg |-> co2_kg,
                  daily_budget_kg |-> daily_budget_kg, raised |-> out.raised,
                  status |-> out.status]
  /\ UNCHANGED <<monitorVars, fg, frame, now, calcVars, sessVars>>

\* ------------------------------------------------------------- foreground calls on a monitor
Start ==
  /\ fg = "idle"
  /\ start_monitoring
  /\ last' = [op |-> "start_monitoring", accepted |-> ~monitoring, at |-> now]
  /\ UNCHANGED <<fg, frame, now, calcVars, sessVars>>

\* what stop_monitoring returns when the monitor is not running: `return {}`
StopIdleReturnsSummary == get_summary(measurements)
StopIdleReturn == EmptyDict

Stop ==
  /\ fg = "idle"
  /\ IF ~monitoring
     THEN /\ last' = [op |-> "stop_monitoring", ran |-> FALSE, ret |-> StopIdleReturn,
                          logged |-> stop_log(FALSE, FALSE)]
          /\ UNCHANGED <<monitorVars, fg, frame>>
     ELSE /\ stop_begin
          /\ IF monitor_thread # NoThread
             THEN fg' = "join" /\ UNCHANGED <<last, frame>>
             ELSE /\ last' = [op |-> "stop_monitoring", ran |-> TRUE, joined |-> TRUE,
                              ret |-> get_summary(measurements),
                              logged |-> stop_log(TRUE, TRUE)]
                  /\ UNCHANGED <<fg, frame>>
  /\ UNCHANGED <<now, calcVars, sessVars>>

StopJoin ==
  /\ fg = "join"
  /\ JoinReturns
  /\ fg' = "idle"
  /\ UNCHANGED frame
  /\ last' = [op |-> "stop_monitoring", ran |-> TRUE, joined |-> ~Alive(monitor_thread),
              ret |-> get_summary(measurements),
              logged |-> stop_log(TRUE, ~Alive(monitor_thread))]
  /\ UNCHANGED <<monitorVars, now, calcVars, sessVars>>

\* get_summary() called from the foreground, in the order of its reads of
\* self.measurements: the emptiness test and the duration; each of the
\* three averages; the peaks and the count. The loop threads run between
\* them.
GetSummaryBegin ==
  /\ fg = "idle"
  /\ IF NothingToSummarise(measurements)
     THEN /\ last' = [op |-> "get_summary", running |-> monitoring,
                      n_begin |-> Len(measurements), n_end |-> Len(measurements),
                      ret |-> EmptySummary]
          /\ UNCHANGED <<fg, frame>>
     ELSE /\ fg' = "summary_averages"
          /\ frame' = [running |-> monitoring, n_begin |-> Len(measurements),
                       duration_seconds |-> Duration(measurements)]
          /\ UNCHANGED last
  /\ UNCHANGED <<monitorVars, now, calcVars, sessVars>>

GetSummaryAvgCpu ==
  /\ fg = "summary_averages"
  /\ fg' = "summary_avg_gpu"
  /\ frame' = [running |-> frame.running, n_begin |-> frame.n_begin,
               duration_seconds |-> frame.duration_seconds,
               avg_cpu_power |-> Mean(measurements, "cpu_power_watts")]
  /\ UNCHANGED <<monitorVars, now, last, calcVars, sessVars>>

GetSummaryAvgGpu ==
  /\ fg = "summary_avg_gpu"
  /\ fg' = "summary_avg_total"
  /\ frame' = [running |-> frame.running, n_begin |-> frame.n_begin,
               duration_seconds |-> frame.duration_seconds,
               avg_cpu_power |-> frame.avg_cpu_power,
               avg_gpu_power |-> Mean(measurements, "gpu_power_watts")]
  /\ UNCHANGED <<monitorVars, now, last, calcVars, sessVars>>

GetSummaryAvgTotal ==
  /\ fg = "summary_avg_total"
  /\ fg' = "summary_peaks"
  /\ frame' = [running |-> frame.running, n_begin |-> frame.n_begin,
               duration_seconds |-> frame.duration_seconds,
               avg_cpu_power |-> frame.avg_cpu_power,
               avg_gpu_power |-> frame.avg_gpu_power,
               avg_total_power |-> Mean(measurements, "total_power_watts")]
  /\ UNCHANGED <<monitorVars, now, last, calcVars, sessVars>>

GetSummaryReturn ==
  /\ fg = "summary_peaks"
  /\ fg' = "idle"
  /\ frame' = EmptyDict
  /\ last' = [op |-> "get_summary", running |-> frame.running,
              n_begin |-> frame.n_begin, n_end |-> Len(measurements),
              ret |-> Summary(frame.duration_seconds, frame.avg_cpu_power,
                              frame.avg_gpu_power, frame.avg_total_power, measurements)]
  /\ UNCHANGED <<monitorVars, now, calcVars, sessVars>>

\* get_realtime_stats(): {} on an empty buffer, else the fields of the
\* latest measurement, read once
get_realtime_stats(ms) == IF ms = <<>> THEN EmptyDict ELSE ms[Len(ms)]

RealtimeStats ==
  /\ fg = "idle"
  /\ last' = [op |-> "get_realtime_stats", n |-> Len(measurements),
              ret |-> get_realtime_stats(measurements)]
  /\ UNCHANGED <<monitorVars, fg, frame, now, calcVars, sessVars>>

Sample(percents, errs) ==
  \E t \in ThreadIds : LoopSample(t, percents, errs) /\ UNCHANGED <<fg, frame, now, last, calcVars, sessVars>>

AppendSample ==
  \E t \in ThreadIds : LoopAppend(t) /\ UNCHANGED <<fg, frame, now, last, calcVars, sessVars>>

Elapse(d, horizon) ==
  /\ now + d <= horizon
  /\ now' = now + d
  /\ UNCHANGED <<monitorVars, fg, frame, last, calcVars, sessVars>>

\* the samples of the monitor runs are taken whole hours apart
MonitorElapse == Elapse(3600, 3600 * MonitorHorizon)

\* the lookups of the cache runs happen just before the entry expires, at
\* its expiry, or at the end of the run
CacheElapse ==
  \E t \in {cache_duration - 1, cache_duration, CacheHorizon} :
    t > now /\ Elapse(t - now, CacheHorizon)

\* ------------------------------------------------------------- CarbonAwareTrainingSession
Budgets == {NoneObj, RatZero, Rat(1, 50)}

\* calculate_equivalent_emissions(co2_kg): six entries, each the amount
\* divided by a factor; the entry is kept as the two terms of the quotient,
\* which the f-string then formats
calculate_equivalent_emissions(co2_kg) ==
  [car_driving_miles |-> <<co2_kg, Rat(404, 1000)>>,
   car_driving_km |-> <<co2_kg, Rat(40400000, 160934000)>>,
   smartphone_charges |-> <<co2_kg, Rat(84, 10000)>>,
   led_bulb_hours |-> <<co2_kg, Rat(9, 1000)>>,
   tree_absorption |-> <<co2_kg, Rat(218, 10)>>,
   flight_km |-> <<co2_kg, Rat(255, 1000)>>]

\* CarbonAwareTrainingSession.get_carbon_footprint / get_equivalents of session s
get_carbon_footprint(s) == footprint[s]
get_equivalents(s) ==
  IF footprint[s] = NoneObj THEN EmptyDict
  ELSE calculate_equivalent_emissions(footprint[s].total_co2_kg)

\* `if self.carbon_budget_kg and self.footprint.total_co2_kg > self.carbon_budget_kg`
BudgetWarning(budget, fp) ==
  /\ budget # NoneObj
  /\ budget.num # 0
  /\ ~RatLeq(fp.total_co2_kg, budget)

SessionNew == \E budget \in Budgets : NewSession(1, budget, {"FR"})

\* __enter__: the best-effort lookup, then EnergyTracker.__enter__
SessionEnter ==
  /\ created[1] /\ spc = "new" /\ fg = "idle"
  /\ \E c \in Electricitymap : \E r \in {Lookup(1, c)} :
       /\ Looked(1, r, c)
       /\ last' = [op |-> "enter", lookup |-> r.ret]
       /\ IF r.ret.raised
          THEN /\ spc' = "enter_raised"
               /\ exc' = "fetch"
               /\ UNCHANGED monitorVars
          ELSE /\ start_monitoring
               /\ spc' = "workload"
               /\ UNCHANGED exc
  /\ UNCHANGED <<fg, frame, now, region, created, footprint, tracker_summary, carbon_budget_kg>>

\* __exit__ from the return of stop_monitoring on: `summary` is what the
\* tracker stored, e the exception the with-block is unwinding with
ExitRest(summary, e) ==
  /\ tracker_summary' = summary
  /\ \E c \in Electricitymap : \E r \in {Lookup(1, c)} :
       \E out \in {calculate_footprint(summary, None, r)} :
         /\ IF out.consulted THEN Looked(1, r, c)
            ELSE UNCHANGED <<carbon_intensity_cache, log>>
         /\ IF out.raised
            THEN /\ exc' = "fetch"
                 /\ UNCHANGED footprint
                 /\ last' = [op |-> "exit", workload_raised |-> e = "workload",
                             warned |-> FALSE]
            ELSE /\ exc' = e
                 /\ footprint' = [footprint EXCEPT ![1] = out.footprint]
                 /\ last' = [op |-> "exit", workload_raised |-> e = "workload",
                             warned |-> BudgetWarning(carbon_budget_kg, out.footprint)]
  /\ spc' = "done"

\* the with-block ends, normally or by an exception of the workload, and
\* __exit__ runs up to the join of stop_monitoring (to its end when
\* stop_monitoring does not join)
SessionExit ==
  /\ spc = "workload" /\ fg = "idle"
  /\ \E workload_raised \in BOOLEAN :
       LET e == IF workload_raised THEN "workload" ELSE "none" IN
         IF ~monitoring
         THEN ExitRest(StopIdleReturn, e) /\ UNCHANGED <<monitorVars, fg, frame>>
         ELSE /\ stop_begin
              /\ IF monitor_thread # NoThread
                 THEN /\ fg' = "exit_join"
                      /\ UNCHANGED frame
                      /\ exc' = e
                      /\ spc' = "exiting"
                      /\ last' = [op |-> "exit_begin"]
                      /\ UNCHANGED <<carbon_intensity_cache, log, footprint, tracker_summary>>
                 ELSE ExitRest(get_summary(measurements), e) /\ UNCHANGED <<fg, frame>>
  /\ UNCHANGED <<now, region, created, carbon_budget_kg>>

\* the join of stop_monitoring returns inside __exit__, which runs to its end
SessionExitJoin ==
  /\ fg = "exit_join"
  /\ JoinReturns
  /\ fg' = "idle"
  /\ UNCHANGED frame
  /\ ExitRest(get_summary(measurements), exc)
  /\ UNCHANGED <<monitorVars, now, region, created, carbon_budget_kg>>

\* the workload uses the monitor it was handed
WorkloadStart == spc = "workload" /\ Start
WorkloadStop == spc = "workload" /\ Stop

Init ==
  /\ monitoring = FALSE
  /\ measurements = <<>>
  /\ monitor_thread = NoThread
  /\ gpu_available \in BOOLEAN
  /\ loop = [t \in ThreadIds |-> "dead"]
  /\ pending = [t \in ThreadIds |-> NoMeasurement]
  /\ tick_error = [t \in ThreadIds |-> "none"]
  /\ fg = "idle"
  /\ frame = EmptyDict
  /\ now = 0
  /\ last = [op |-> "none"]
  /\ region = "unread"
  /\ created = [s \in Sessions |-> FALSE]
  /\ carbon_intensity_cache = [s \in Sessions |-> EmptyDict]
  /\ log = <<>>
  /\ spc = "new"
  /\ exc = "none"
  /\ footprint = [s \in Sessions |-> NoneObj]
  /\ tracker_summary = EmptyDict
  /\ carbon_budget_kg = NoneObj

MonitorNext ==
  Start \/ Stop \/ StopJoin \/ Sample(CpuPercents, {"none"}) \/ AppendSample \/ MonitorElapse

SpecMonitor == Init /\ [][MonitorNext]_vars

\* The same monitor with a fair scheduler: a loop thread is a started daemon
\* thread whose sleep and sensor reads end, so a thread that can take its
\* next step eventually takes it. The foreground calls are under no fairness.
LoopStep(t) ==
  /\ LoopSample(t, CpuPercents, {"none"}) \/ LoopAppend(t)
  /\ UNCHANGED <<fg, frame, now, last, calcVars, sessVars>>

SpecMonitorFair == SpecMonitor /\ \A t \in ThreadIds : WF_vars(LoopStep(t))

\* ------------------------------------------------------------- _estimate_cpu_tdp
\* What the hardware introspection answers at construction:
\* psutil.cpu_count() is a number of logical cores or None (undetermined);
\* psutil.cpu_freq() raises (platform without the interface), returns None,
\* or returns a reading whose `current` is in MHz (0 where the platform
\* reports no value).
CpuCounts == {None} \cup (1 .. MaxCores)
CpuFreqs ==
  { [kind |-> "raises", current |-> 0], [kind |-> "none", current |-> 0],
    [kind |-> "freq", current |-> 0], [kind |-> "freq", current |-> 2000],
    [kind |-> "freq", current |-> 4000] }

RatMax(a, b) == IF RatLess(a, b) THEN b ELSE a
RatMin(a, b) == IF RatLess(b, a) THEN b ELSE a

\* _estimate_cpu_tdp: cpu_count * (15 + (GHz - 2.0) * 5) clamped to
\* [35, 200] when a frequency reading exists, cpu_count * 20 as it is when
\* there is none, and 65 when anything raises (cpu_freq() itself, or the
\* arithmetic on a cpu_count of None).
estimate_cpu_tdp(cpu_count, cpu_freq) ==
  IF cpu_freq.kind = "raises" \/ cpu_count = None THEN Rat(65, 1)
  ELSE IF cpu_freq.kind = "freq"
  THEN LET base_freq_ghz == Rat(cpu_freq.current, 1000)
           estimated_tdp ==
             RatMulInt(RatSub(Rat(15, 1),
                              RatMulInt(RatSub(Rat(2, 1), base_freq_ghz), 5)),
                       cpu_count)
       IN RatMax(Rat(35, 1), RatMin(estimated_tdp, Rat(200, 1)))
  ELSE Rat(cpu_count * 20, 1)

\* EnergyMonitor.__init__ fixing self.cpu_tdp on some machine
EstimateCpuTdp ==
  /\ \E cpu_count \in CpuCounts, cpu_freq \in CpuFreqs :
       last' = [op |-> "_estimate_cpu_tdp", cpu_count |-> cpu_count, cpu_freq |-> cpu_freq,
                cpu_tdp |-> estimate_cpu_tdp(cpu_count, cpu_freq)]
  /\ UNCHANGED <<monitorVars, fg, frame, now, calcVars, sessVars>>

TdpNext == EstimateCpuTdp

SpecTdp == Init /\ [][TdpNext]_vars

\* the same monitor with ticks that fail, under full CPU load
TickNext == Start \/ Stop \/ StopJoin \/ Sample({100}, TickErrors) \/ AppendSample

SpecTick == Init /\ [][TickNext]_vars

\* the same monitor read from the foreground while it runs
ReaderNext ==
  \/ Start \/ Sample(CpuPercents, {"none"}) \/ AppendSample \/ MonitorElapse
  \/ GetSummaryBegin \/ GetSummaryAvgCpu \/ GetSummaryAvgGpu \/ GetSummaryAvgTotal
  \/ GetSummaryReturn \/ RealtimeStats

SpecReader == Init /\ [][ReaderNext]_vars

CacheNext ==
  \/ \E s \in Sessions : NewSession(s, NoneObj, Regions)
  \/ \E s \in Sessions : GetCached(s)
  \/ CacheElapse

\* one calculator, asked for footprints
FootprintNext == NewSession(1, NoneObj, Regions) \/ Calculate(1) \/ CacheElapse

SpecFootprint == Init /\ [][FootprintNext]_vars

\* the calculators of the sessions, asked for the status of a budget
BudgetNext ==
  \/ \E s \in Sessions : NewSession(s, NoneObj, Regions)
  \/ \E s \in Sessions : BudgetStatus(s)

SpecBudget == Init /\ [][BudgetNext]_vars

SessionNext ==
  \/ SessionNew \/ SessionEnter \/ SessionExit \/ SessionExitJoin
  \/ WorkloadStart \/ WorkloadStop \/ StopJoin
  \/ Sample({100}, {"none"}) \/ AppendSample \/ MonitorElapse

SpecSession == Init /\ [][SessionNext]_vars

SpecCache == Init /\ [][CacheNext]_vars

\* ------------------------------------------------------------- scheduler.schedule_training
\* the `train` section of configs/config.yaml: a window of hours and the two
\* intensity thresholds (nothing in the code orders min below max); the
\* upstream answers 150 and 250 fall below, on and above them
TrainCfgs ==
  [earliest_start_hour : {0, 8}, latest_start_hour : {6, 20},
   min_carbon_intensity : {150, 200, 300}, max_carbon_intensity : {200, 250}]

\* datetime.datetime.now().hour
Hours == 0 .. 23

\* `earliest <= current_hour <= latest`
InWindowExclusive(cfg, current_hour) ==
  cfg.earliest_start_hour < current_hour /\ current_hour < cfg.latest_start_hour
InWindow(cfg, current_hour) ==
  cfg.earliest_start_hour <= current_hour /\ current_hour <= cfg.latest_start_hour

\* schedule_training() at hour current_hour under configuration cfg, with
\* `up` what get_carbon_intensity() does if it is called. consulted: whether
\* it was called; raised: the call left schedule_training by its exception
\* (there is no handler), so that nothing is returned.
schedule_training(cfg, current_hour, up) ==
  IF ~InWindow(cfg, current_hour)
  THEN [raised |-> FALSE, consulted |-> FALSE, ret |-> FALSE]
  ELSE IF up.raised THEN [raised |-> TRUE, consulted |-> TRUE]
  ELSE LET ci == up.value IN
       IF ci = None THEN [raised |-> FALSE, consulted |-> TRUE, ret |-> TRUE]
       ELSE IF ci < cfg.min_carbon_intensity
       THEN [raised |-> FALSE, consulted |-> TRUE, ret |-> TRUE]
       ELSE IF ci > cfg.max_carbon_intensity
       THEN [raised |-> FALSE, consulted |-> TRUE, ret |-> FALSE]
       ELSE [raised |-> FALSE, consulted |-> TRUE, ret |-> TRUE]

ScheduleTraining ==
  /\ \E cfg \in TrainCfgs, current_hour \in Hours, c \in UpstreamCases :
       last' = [op |-> "schedule_training", cfg |-> cfg, current_hour |-> current_hour,
                up |-> get_carbon_intensity(c),
                out |-> schedule_training(cfg, current_hour, get_carbon_intensity(c))]
  /\ UNCHANGED <<monitorVars, fg, frame, now, calcVars, sessVars>>

SchedulerNext == ScheduleTraining

SpecScheduler == Init /\ [][SchedulerNext]_vars

\* ------------------------------------------------------------- optimizer.optimize_training_config
\* configs/config.yaml as the optimizer reads it: the `model` section with
\* a batch size of at least 1, and the two thresholds of the `train` section
OptimizerCfgs ==
  [model : [batch_size : 1 .. MaxBatch, use_mixed_precision : BOOLEAN],
   train : { [min_carbon_intensity |-> 200, max_carbon_intensity |-> 250],
             [min_carbon_intensity |-> 300, max_carbon_intensity |-> 200] }]

\* the intensity handed to the optimizer: None, or a number
Intensities == {None, 150, 250, 500}

\* optimize_training_config(ci, cfg): the model section as it is when ci is
\* None or below the minimum; max(32, batch_size // 2) with mixed precision
\* when ci is above the maximum; else int(batch_size * 0.75)
optimize_training_config(ci, cfg) ==
  IF ci = None THEN cfg.model
  ELSE IF ci > cfg.train.max_carbon_intensity
  THEN [cfg.model EXCEPT
          !.use_mixed_precision = TRUE,
          !.batch_size = IF 32 > cfg.model.batch_size \div 2 THEN 32
                         ELSE cfg.model.batch_size \div 2]
  ELSE IF ci < cfg.train.min_carbon_intensity THEN cfg.model
  ELSE [cfg.model EXCEPT !.batch_size = (cfg.model.batch_size * 3) \div 4]

OptimizeTrainingConfig ==
  /\ \E ci \in Intensities, cfg \in OptimizerCfgs :
       last' = [op |-> "optimize_training_config", ci |-> ci, cfg |-> cfg,
                ret |-> optimize_training_config(ci, cfg)]
  /\ UNCHANGED <<monitorVars, fg, frame, now, calcVars, sessVars>>

OptimizerNext == OptimizeTrainingConfig

SpecOptimizer == Init /\ [][OptimizerNext]_vars

\* ------------------------------------------------------------- train.main, demo_carbon_calculation
\* After the with-block has completed, the caller constructs a session
\* object of its own, `session = CarbonAwareTrainingSession(name)` (the
\* with-statement bound the EnergyMonitor, not the session) ...
CallerSession ==
  /\ spc = "done" /\ exc = "none" /\ fg = "idle"
  /\ NewSession(2, NoneObj, {"FR"})

\* ... and reads and reports the footprint of that object:
\* `footprint = session.get_carbon_footprint()`, `if footprint:` report it,
\* else warn "Could not calculate carbon footprint"
CallerReport ==
  /\ created[2] /\ fg = "idle"
  /\ last' = [op |-> "report", footprint |-> get_carbon_footprint(2),
              reported |-> get_carbon_footprint(2) # NoneObj,
              equivalents |-> IF get_carbon_footprint(2) # NoneObj
                              THEN get_equivalents(2) ELSE EmptyDict]
  /\ UNCHANGED <<monitorVars, fg, frame, now, calcVars, sessVars>>

\* one run of train.main from the with-statement on: the workload does not
\* touch the monitor
TrainNext ==
  \/ NewSession(1, NoneObj, {"FR"}) \/ SessionEnter \/ SessionExit \/ SessionExitJoin
  \/ Sample({100}, {"none"}) \/ AppendSample \/ MonitorElapse
  \/ CallerSession \/ CallerReport

SpecTrain == Init /\ [][TrainNext]_vars

\* ------------------------------------------------------------- the log of lookups
Calls == 1 .. Len(log)

\* call i went upstream and the provider answered with a value, which was stored
Answered(i) == log[i].fetched /\ ~log[i].up.raised /\ log[i].up.value # None

\* call i went upstream and the provider reported the intensity unavailable
Unavailable(i) == log[i].fetched /\ ~log[i].up.raised /\ log[i].up.value = None

\* i is the latest call before j in which j's session went upstream and got a value
LatestAnswered(i, j) ==
  /\ i < j /\ log[i].s = log[j].s /\ Answered(i)
  /\ \A k \in Calls : (i < k /\ k < j /\ log[k].s = log[j].s) => ~Answered(k)

\* k is the next call of j's session after j
NextCall(j, k) ==
  /\ j < k /\ log[k].s = log[j].s
  /\ \A m \in Calls : (j < m /\ m < k) => log[m].s # log[j].s

PositiveEnergy(summary) ==
  /\ DOMAIN summary # {}
  /\ summary.energy.total_kwh.num > 0

\* the most recent foreground call was calculate_footprint on a summary with
\* positive energy
CalculatedPositive == last.op = "calculate_footprint" /\ PositiveEnergy(last.summary)

\* ------------------------------------------------------------- C1 (SpecSession)
\* C1: when the workload of a session raises, __exit__ leaves the monitor
\* stopped and a footprint stored, and the exception that reaches the caller
\* is the workload's own.
C1_ExitKeepsWorkloadException ==
  (spc = "done" /\ last.op = "exit" /\ last.workload_raised) =>
    /\ ~monitoring
    /\ footprint[1] # NoneObj
    /\ exc = "workload"

\* ------------------------------------------------------------- C2 (SpecMonitor)
\* C2: a start_monitoring() call made while the monitor is running changes
\* neither the buffer, nor the flag, nor the thread reference, and creates no
\* loop thread.
C2_StartWhileRunningIsNoOp ==
  [][(monitoring /\ Start) =>
       UNCHANGED <<measurements, monitoring, monitor_thread, loop, pending>>]_vars

C2_Witness ==
  /\ last.op = "start_monitoring" /\ ~last.accepted
  /\ monitoring /\ Len(measurements) > 0 /\ Alive(monitor_thread)

\* ------------------------------------------------------------- C3 (SpecMonitor)
\* C3: at no time are two loop threads inside a tick, each holding a
\* measurement it is about to append to the buffer.
C3_SingleWriter == Cardinality({t \in ThreadIds : loop[t] = "append"}) <= 1

C5_OneFetchPerTTL ==
  \A i, j \in Calls :
    LatestAnswered(i, j) => (log[j].fetched <=> log[j].t - log[i].t >= cache_duration)

C5_Witness ==
  /\ Len(log) = 3
  /\ \A i \in Calls : log[i].s = 1
  /\ Answered(1)
  /\ ~log[2].fetched /\ log[2].t - log[1].t < cache_duration /\ log[2].t > log[1].t
  /\ log[3].fetched /\ log[3].t - log[1].t >= cache_duration

\* ------------------------------------------------------------- C6 (SpecCache)
\* C6: a value served from the cache is younger than cache_duration at the
\* call, and is the value an earlier call fetched at the entry's timestamp.
C6_NoStaleValue ==
  \A j \in Calls :
    ~log[j].fetched =>
      /\ log[j].t - log[j].entry_ts < cache_duration
      /\ \E i \in Calls : /\ i < j /\ Answered(i)
                          /\ log[i].t = log[j].entry_ts
                          /\ log[i].up.value = log[j].ret.value

C6_Witness ==
  \E i, j, k \in Calls :
    /\ i < j /\ j < k /\ log[i].s = log[j].s /\ log[j].s = log[k].s
    /\ Answered(i)
    /\ ~log[j].fetched /\ log[j].entry_ts = log[i].t
    /\ log[j].t - log[j].entry_ts = cache_duration - 1
    /\ log[k].fetched /\ log[k].t - log[i].t = cache_duration

C9_ResolutionOrder ==
  (CalculatedPositive /\ ~last.raised) =>
    /\ last.consulted <=> last.override = None
    /\ last.footprint.avg_carbon_intensity =
         IF last.override # None THEN last.override
         ELSE IF log[Len(log)].ret.value # None THEN log[Len(log)].ret.value
         ELSE IF region \in DOMAIN regional_averages THEN regional_averages[region]
         ELSE 475

C9_Witness ==
  /\ CalculatedPositive /\ ~last.raised
  /\ last.override = None /\ last.consulted
  /\ log[Len(log)].ret.value = None
  /\ region \in DOMAIN regional_averages
  /\ last.footprint.avg_carbon_intensity = regional_averages[region]
  /\ \E i \in Calls : Answered(i)

\* ------------------------------------------------------------- C10 (SpecFootprint)
\* C10: calculate_footprint with positive energy and no override, whose
\* fetch fails (the provider reports unavailable, or the call raises),
\* returns a footprint with the fallback intensity of the region.
C10_FetchFailureFallsBack ==
  (/\ CalculatedPositive /\ last.override = None /\ last.consulted
   /\ log[Len(log)].fetched
   /\ (log[Len(log)].up.raised \/ log[Len(log)].up.value = None)) =>
    /\ ~last.raised
    /\ last.footprint # NoneObj
    /\ last.footprint.avg_carbon_intensity = GetOr(regional_averages, region)

\* ------------------------------------------------------------- C11 (SpecFootprint)
\* C11: a footprint computed from positive energy e at intensity I has
\* total_co2_grams = e * I, total_co2_kg = total_co2_grams / 1000,
\* cost_estimate_usd = e * (the region's cost per kWh, or the default cost),
\* and e and the duration copied from the summary; 0.1 kWh at override 400
\* gives 40 g and 0.04 kg.
C11_FootprintDerivation ==
  (CalculatedPositive /\ ~last.raised) =>
    LET fp == last.footprint
        e == last.summary.energy.total_kwh
        I == fp.avg_carbon_intensity
        c == IF region \in DOMAIN electricity_costs THEN electricity_costs[region]
             ELSE electricity_costs["default"]
    IN /\ last.override # None => I = last.override
       /\ fp.total_co2_grams.num * e.den = e.num * I * fp.total_co2_grams.den
       /\ fp.total_co2_kg.num * 1000 * fp.total_co2_grams.den
            = fp.total_co2_grams.num * fp.total_co2_kg.den
       /\ fp.cost_estimate_usd.num * e.den * c.den = e.num * c.num * fp.cost_estimate_usd.den
       /\ fp.energy_kwh = e
       /\ fp.duration_hours = last.summary.duration_hours
       /\ (e = [num |-> 1, den |-> 10] /\ last.override = 400) =>
            /\ fp.total_co2_grams = [num |-> 40, den |-> 1]
            /\ fp.total_co2_kg = [num |-> 1, den |-> 25]

C11_Witness ==
  /\ CalculatedPositive /\ ~last.raised /\ last.override = 400
  /\ last.summary.energy.total_kwh = [num |-> 1, den |-> 10]
  /\ last.footprint.total_co2_grams = [num |-> 40, den |-> 1]
  /\ region = "FR"
  /\ last.footprint.cost_estimate_usd = [num |-> 9, den |-> 500]

\* ------------------------------------------------------------- C12 (SpecFootprint)
\* C12: calculate_footprint on a summary whose total energy is <= 0 (the
\* empty summary included) does not raise and returns zero grams, zero kg and
\* zero energy, with the duration_hours of the summary (0 for the empty one).
C12_ZeroFootprintKeepsDuration ==
  (last.op = "calculate_footprint" /\ ~PositiveEnergy(last.summary)) =>
    /\ ~last.raised
    /\ last.footprint.total_co2_grams.num = 0
    /\ last.footprint.total_co2_kg.num = 0
    /\ last.footprint.energy_kwh.num = 0
    /\ last.footprint.duration_hours =
         IF "duration_hours" \in DOMAIN last.summary THEN last.summary.duration_hours
         ELSE [num |-> 0, den |-> 1]

C12_Witness ==
  /\ last.op = "calculate_footprint" /\ ~last.raised /\ DOMAIN last.summary # {}
  /\ last.summary.energy.total_kwh.num = 0
  /\ last.summary.duration_hours.num > 0
  /\ last.footprint.duration_hours = last.summary.duration_hours
  /\ last.footprint.total_co2_grams.num = 0

\* ------------------------------------------------------------- C17 (SpecBudget)
\* C17: for used_kg >= 0 and any daily budget, get_carbon_budget_status
\* returns a status with remaining_kg = max(0, budget - used), percentage_used
\* = used / budget * 100 and budget_exceeded = (used > budget); exceeded
\* implies remaining_kg = 0; 1.0 of 5.0 gives 4.0 remaining, 20 percent, not
\* exceeded, and 6.0 of 5.0 gives 0.0 remaining, exceeded.
C17_BudgetStatus ==
  (last.op = "get_carbon_budget_status" /\ last.co2_kg.num >= 0) =>
    LET used == last.co2_kg
        b == IF last.daily_budget_kg = NoneObj THEN [num |-> 460, den |-> 73]
             ELSE last.daily_budget_kg
        st == last.status
        over == used.num * b.den > b.num * used.den
    IN /\ ~last.raised
       /\ st.budget_exceeded = over
       /\ IF over THEN st.remaining_kg.num = 0
          ELSE st.remaining_kg.num * b.den * used.den
                 = (b.num * used.den - used.num * b.den) * st.remaining_kg.den
       /\ st.percentage_used.num * used.den * b.num
            = 100 * used.num * b.den * st.percentage_used.den
       /\ (used = [num |-> 1, den |-> 1] /\ b = [num |-> 5, den |-> 1]) =>
            /\ st.remaining_kg = [num |-> 4, den |-> 1]
            /\ st.percentage_used = [num |-> 20, den |-> 1]
            /\ ~st.budget_exceeded
       /\ (used = [num |-> 6, den |-> 1] /\ b = [num |-> 5, den |-> 1]) =>
            /\ st.remaining_kg.num = 0
            /\ st.budget_exceeded

\* ------------------------------------------------------------- C13 (SpecSession)
\* C13: until the session's __exit__ has run, get_carbon_footprint() is None
\* and get_equivalents() is empty; once __exit__ has run, the footprint is
\* there and the equivalents are not empty.
C13_FootprintOnceAtExit ==
  /\ spc # "done" =>
       /\ get_carbon_footprint(1) = NoneObj
       /\ get_equivalents(1) = EmptyDict
  /\ spc = "done" =>
       /\ get_carbon_footprint(1) # NoneObj
       /\ DOMAIN get_equivalents(1) # {}

C19_BufferFrozenAfterStop ==
  [][(~monitoring /\ fg = "idle" /\ ~monitoring') => measurements' = measurements]_vars

\* ------------------------------------------------------------- reads of the buffer
\* the latest foreground call was a get_summary() during which the buffer
\* held the same n measurements from the first read to the last
SummaryOfStable(n) ==
  last.op = "get_summary" /\ last.n_begin = n /\ last.n_end = n

\* ------------------------------------------------------------- C14 (SpecReader)
\* C14 as stated: get_summary() on an empty buffer returns a summary with a
\* sample count of 0 and zero duration, averages, peaks and energies.
C14_EmptySummaryAllZero ==
  SummaryOfStable(0) =>
    /\ {"duration_seconds", "measurements_count", "energy", "power"} \subseteq DOMAIN last.ret
    /\ last.ret.measurements_count = 0
    /\ last.ret.duration_seconds = 0
    /\ last.ret.energy.total_kwh.num = 0
    /\ last.ret.power.avg_total_watts.num = 0
    /\ last.ret.power.peak_total_watts = 0

\* C14 amended: get_summary() on an empty buffer returns the empty dict,
\* which has no field at all (no sample count, no zero-valued numbers); the
\* call divides by nothing and does not raise.
C14_EmptySummaryIsEmptyDict ==
  SummaryOfStable(0) => DOMAIN last.ret = {}

C14_Witness ==
  SummaryOfStable(0) /\ monitoring /\ measurements = <<>> /\ now > 0

\* ------------------------------------------------------------- C15 (SpecReader)
\* C15: get_summary() on a buffer of exactly one measurement m returns a
\* duration of 0 and total, CPU and GPU energies of 0, whatever the power of
\* m, and averages and peaks equal to the powers of m.
C15_SingleMeasurementSummary ==
  SummaryOfStable(1) =>
    LET m == measurements[1]
        r == last.ret
    IN /\ r.measurements_count = 1
       /\ r.duration_seconds = 0
       /\ r.energy.total_kwh.num = 0 /\ r.energy.cpu_kwh.num = 0 /\ r.energy.gpu_kwh.num = 0
       /\ r.power.avg_total_watts = [num |-> m.total_power_watts, den |-> 1]
       /\ r.power.avg_cpu_watts = [num |-> m.cpu_power_watts, den |-> 1]
       /\ r.power.avg_gpu_watts = [num |-> m.gpu_power_watts, den |-> 1]
       /\ r.power.peak_total_watts = m.total_power_watts
       /\ r.power.peak_cpu_watts = m.cpu_power_watts
       /\ r.power.peak_gpu_watts = m.gpu_power_watts

C15_Witness ==
  /\ SummaryOfStable(1)
  /\ measurements[1].timestamp > 0 /\ measurements[1].total_power_watts > 0
  /\ last.ret.energy.total_kwh.num = 0

\* ------------------------------------------------------------- C16 (SpecReader)
\* C16: get_summary() on a non-empty buffer returns total_kwh =
\* avg_total_watts * duration_hours / 1000, with duration_hours = (last
\* timestamp - first timestamp) / 3600 and avg_total_watts the sum of the
\* samples' total power divided by their number.
C16_EnergyIsAveragePowerTimesDuration ==
  \A n \in 1 .. MaxSamples :
    SummaryOfStable(n) =>
      LET ms == SubSeq(measurements, 1, n)
          r == last.ret
          kwh == r.energy.total_kwh
          avg == r.power.avg_total_watts
          dh == r.duration_hours
      IN /\ kwh.num * 1000 * avg.den * dh.den = avg.num * dh.num * kwh.den
         /\ dh.num * 3600 = (ms[n].timestamp - ms[1].timestamp) * dh.den
         /\ avg.num * n = SumOf(ms, "total_power_watts") * avg.den

C16_Witness ==
  /\ SummaryOfStable(2)
  /\ measurements[1].total_power_watts # measurements[2].total_power_watts
  /\ measurements[2].total_power_watts > 0
  /\ last.ret.duration_seconds = 3600
  /\ last.ret.energy.total_kwh.num > 0

\* ------------------------------------------------------------- C20 (SpecReader)
\* C20: the result of a get_summary() call is the summary of one prefix of
\* the buffer, which holds at least the measurements appended before the
\* call; the result of get_realtime_stats() is the latest measurement at the
\* call.
C20_ReadsOneSnapshot ==
  /\ last.op = "get_summary" =>
       \E k \in last.n_begin .. last.n_end :
         last.ret = get_summary(SubSeq(measurements, 1, k))
  /\ (last.op = "get_realtime_stats" /\ last.n > 0) => last.ret = measurements[last.n]

\* ------------------------------------------------------------- C21 (SpecMonitor)
\* C21: the timestamps of the buffer never decrease in insertion order, and
\* the duration of the summary of the buffer is never negative.
C21_BufferChronological ==
  /\ \A i, j \in 1 .. Len(measurements) :
       i < j => measurements[i].timestamp <= measurements[j].timestamp
  /\ measurements # <<>> => get_summary(measurements).duration_seconds >= 0

C23_TimeoutSurfacedAsWarning ==
  (last.op = "stop_monitoring" /\ last.ran) =>
    (last.logged = "warning" <=> ~last.joined)

\* ------------------------------------------------------------- C24 (SpecMonitorFair)
\* C24: once the flag is down, a loop thread that is at the top of its loop
\* begins no further tick, so that it appends at most the measurement of the
\* tick it was in; and unless a later start_monitoring() raises the flag
\* again, every loop thread eventually exits.
C24_LoopExitsAfterStop ==
  /\ [][\A t \in ThreadIds :
         (~monitoring /\ loop[t] = "sleep") => loop'[t] \in {"sleep", "dead"}]_vars
  /\ ~monitoring ~> (monitoring \/ \A t \in ThreadIds : ~Alive(t))

C24_Witness ==
  /\ last.op = "stop_monitoring" /\ last.ran /\ ~last.joined
  /\ ~monitoring /\ \A t \in ThreadIds : ~Alive(t)
  /\ "measurements_count" \in DOMAIN last.ret
  /\ Len(measurements) = last.ret.measurements_count + 1

\* ------------------------------------------------------------- C25 (SpecMonitor)
\* C25: the buffer loses or changes a stored measurement only in an accepted
\* start_monitoring(), which empties it; every other step keeps the buffer
\* as a prefix of the new one; and the measurements found in the buffer
\* after an accepted start were all taken after that start.
C25_ClearedOnlyByStart ==
  [][/\ IF ~monitoring /\ monitoring'
        THEN measurements' = <<>>
        ELSE /\ Len(measurements') >= Len(measurements)
             /\ SubSeq(measurements', 1, Len(measurements)) = measurements
     /\ (last'.op = "start_monitoring" /\ last'.accepted) =>
          \A i \in 1 .. Len(measurements') : measurements'[i].timestamp >= last'.at]_vars

\* the part of C25 about removal alone
C25_OnlyStartRemoves ==
  [][IF ~monitoring /\ monitoring'
     THEN measurements' = <<>>
     ELSE /\ Len(measurements') >= Len(measurements)
          /\ SubSeq(measurements', 1, Len(measurements)) = measurements]_vars

\* ------------------------------------------------------------- C26 (SpecMonitor)
\* C26: stop_monitoring() on a monitor that is not running returns the empty
\* result without raising and leaves the buffer, the flag, the thread
\* reference and the loop threads as they were.
C26_StopWhenIdleIsNoOp ==
  [][(~monitoring /\ fg = "idle" /\ last'.op = "stop_monitoring" /\ last' # last) =>
       /\ ~last'.ran
       /\ last'.ret = EmptyDict
       /\ fg' = "idle"
       /\ UNCHANGED <<monitoring, measurements, monitor_thread, loop, pending>>]_vars

C26_Witness ==
  /\ last.op = "stop_monitoring" /\ ~last.ran /\ last.ret = EmptyDict
  /\ ~monitoring /\ monitor_thread # NoThread /\ measurements # <<>>

\* ------------------------------------------------------------- C27 (SpecTdp)
\* C27: whatever the core count and whatever the outcome of the frequency
\* reading, the cpu_tdp fixed at construction lies between 35 and 200 W.
C27_TdpWithinClamp ==
  last.op = "_estimate_cpu_tdp" =>
    /\ RatLeq(Rat(35, 1), last.cpu_tdp)
    /\ RatLeq(last.cpu_tdp, Rat(200, 1))

\* ------------------------------------------------------------- C28 (SpecSession)
\* C28: __enter__ of a session always starts the sampler and hands the
\* monitor to the workload, whether the entry-time lookup of the carbon
\* intensity answers, is unavailable, or raises.
C28_EnterAlwaysStartsSampler ==
  [][(spc = "new" /\ spc' # "new") =>
       /\ spc' = "workload"
       /\ exc' = "none"
       /\ monitoring' /\ monitor_thread' # NoThread /\ loop'[monitor_thread'] # "dead"]_vars

\* the part of C28 about a lookup that returns, with a value or with None
C28_EnterAfterReturningLookup ==
  [][(spc = "new" /\ spc' # "new" /\ ~last'.lookup.raised) =>
       /\ spc' = "workload"
       /\ exc' = "none"
       /\ monitoring' /\ monitor_thread' # NoThread /\ loop'[monitor_thread'] # "dead"]_vars

\* ------------------------------------------------------------- C29 (SpecSession)
\* C29: when a session with a configured budget, a budget of 0 included, has
\* exited and stored its footprint, the budget warning was logged exactly
\* when the footprint's total_co2_kg is greater than the budget.
C29_BudgetWarningIffOver ==
  (last.op = "exit" /\ footprint[1] # NoneObj /\ carbon_budget_kg # NoneObj) =>
    (last.warned <=> RatLess(carbon_budget_kg, footprint[1].total_co2_kg))

\* the part of C29 about the budgets other than 0
C29_NonZeroBudgetWarningIffOver ==
  (last.op = "exit" /\ footprint[1] # NoneObj /\ carbon_budget_kg # NoneObj
     /\ carbon_budget_kg.num # 0) =>
    (last.warned <=> RatLess(carbon_budget_kg, footprint[1].total_co2_kg))

\* ------------------------------------------------------------- C30 (SpecSession)
\* C30: when __exit__ completes, the summary stored by the tracker is the
\* aggregation of all the measurements the buffer then holds, whatever the
\* workload did with the monitor during the with-block.
C30_TrackerSummaryCoversSession ==
  [][(spc # "done" /\ spc' = "done") => tracker_summary' = get_summary(measurements')]_vars

\* the part of C30 about exits that find the monitor still running
C30_SummaryWhenExitStops ==
  [][(spc = "exiting" /\ spc' = "done") => tracker_summary' = get_summary(measurements')]_vars

\* ------------------------------------------------------------- C31 (SpecTrain)
\* C31: the footprint the caller reads and reports after the with-block has
\* completed is the footprint computed by the session that ran, hence not
\* None.
C31_CallerReadsSessionFootprint ==
  last.op = "report" =>
    /\ last.footprint = footprint[1]
    /\ last.footprint # NoneObj
    /\ last.reported

\* ------------------------------------------------------------- C32 (SpecScheduler)
\* C32: schedule_training() returns False exactly when the hour is outside
\* [earliest_start_hour, latest_start_hour], or an intensity is available
\* that is not below min_carbon_intensity and is above max_carbon_intensity;
\* inside the window with the intensity unavailable (None) it returns True;
\* outside the window the upstream provider is not consulted.
C32_ScheduleDecision ==
  last.op = "schedule_training" =>
    LET cfg == last.cfg
        outside == ~(cfg.earliest_start_hour <= last.current_hour
                     /\ last.current_hour <= cfg.latest_start_hour)
        available == ~last.up.raised /\ last.up.value # None
        ci == last.up.value
    IN /\ (~last.out.raised /\ ~last.out.ret) <=>
            \/ outside
            \/ available /\ ~(ci < cfg.min_carbon_intensity) /\ ci > cfg.max_carbon_intensity
       /\ (~outside /\ ~last.up.raised /\ ci = None) => (~last.out.raised /\ last.out.ret)
       /\ outside => ~last.out.consulted

C32_Witness ==
  /\ last.op = "schedule_training"
  /\ last.current_hour = last.cfg.latest_start_hour
  /\ last.out.consulted /\ ~last.out.raised
  /\ last.up.value = 250 /\ last.cfg.min_carbon_intensity = 150
  /\ last.cfg.max_carbon_intensity = 200
  /\ ~last.out.ret

\* ------------------------------------------------------------- C33 (SpecOptimizer)
\* C33: for every intensity, None included, and every configured batch size
\* of at least 1, the returned batch_size is between 1 and the configured
\* one; and for an intensity above max_carbon_intensity the result has
\* use_mixed_precision = True.
C33_BatchSizeWithinConfigured ==
  last.op = "optimize_training_config" =>
    /\ 1 <= last.ret.batch_size
    /\ last.ret.batch_size <= last.cfg.model.batch_size
    /\ (last.ci # None /\ last.ci > last.cfg.train.max_carbon_intensity) =>
         last.ret.use_mixed_precision

\* ------------------------------------------------------------- C34 (SpecReader)
\* C34: every measurement in the buffer has total_power_watts =
\* cpu_power_watts + gpu_power_watts, with a GPU power of 0 when the GPU
\* capability is absent; and every non-empty summary that get_summary()
\* returns has avg_total_watts = avg_cpu_watts + avg_gpu_watts and
\* total_kwh = cpu_kwh + gpu_kwh.
C34_TotalIsCpuPlusGpu ==
  /\ \A i \in 1 .. Len(measurements) :
       /\ measurements[i].total_power_watts =
            measurements[i].cpu_power_watts + measurements[i].gpu_power_watts
       /\ ~gpu_available => measurements[i].gpu_power_watts = 0
  /\ (last.op = "get_summary" /\ DOMAIN last.ret # {}) =>
       LET pw == last.ret.power
           en == last.ret.energy
       IN /\ RatEq(RatSub(pw.avg_total_watts, pw.avg_cpu_watts), pw.avg_gpu_watts)
          /\ RatEq(RatSub(en.total_kwh, en.cpu_kwh), en.gpu_kwh)

\* C34 for the calls of get_summary() during which nothing is appended
C34_StableSummaryIsAdditive ==
  /\ \A i \in 1 .. Len(measurements) :
       /\ measurements[i].total_power_watts =
            measurements[i].cpu_power_watts + measurements[i].gpu_power_watts
       /\ ~gpu_available => measurements[i].gpu_power_watts = 0
  /\ (last.op = "get_summary" /\ DOMAIN last.ret # {} /\ last.n_begin = last.n_end) =>
       LET pw == last.ret.power
           en == last.ret.energy
       IN /\ RatEq(RatSub(pw.avg_total_watts, pw.avg_cpu_watts), pw.avg_gpu_watts)
          /\ RatEq(RatSub(en.total_kwh, en.cpu_kwh), en.gpu_kwh)

====
